---- MODULE Spec2Model ----
(***************************************************************************)
(* A model of the poem command-line tool (src/src/main.rs).                *)
(*                                                                         *)
(* One process runs one command (Index, Search, List, Random, Stat) and    *)
(* exits; the only state that outlives a process is the index directory.   *)
(* The model runs invocations one after another against the same directory *)
(* and the same embedded corpus POEMS_STR.                                 *)
(*                                                                         *)
(* The search engine (tantivy) and the file system are modelled at the     *)
(* interface main.rs calls: a directory is absent, holds something that is *)
(* no index, or holds an index whose durable content is the list of        *)
(* committed documents.  Scoring and tokenization are the engine's: a      *)
(* keyword matches a document when it equals one of its stored field       *)
(* values, and the order of the hits is left open.  Failures of the file   *)
(* system itself (permissions, disk full) are not modelled.                *)
(***************************************************************************)
EXTENDS Integers, Sequences, FiniteSets, TLC

\* ------------------------------------------------------------------ bounds

\* Largest number of poems in the embedded corpus.
MaxCorpus == 2

\* ------------------------------------------------------------- text values

Titles == {"A", "B"}
Authors == {"X", "Y"}
Dynasties == {"Tang", "Song"}
Contents == {"c1", "c2"}

\* A keyword the query parser rejects (unbalanced quote).
BadQuery == "\"c"
Keywords == {"A", "X", "Song", BadQuery}

\* struct Poem { title, author, dynasty, content }, derive(Hash, PartialEq, Eq)
Poem == [title : Titles, author : Authors, dynasty : Dynasties, content : Contents]

\* ---------------------------------------------------------------- helpers

Range(s) == {s[i] : i \in DOMAIN s}

Min(a, b) == IF a < b THEN a ELSE b

\* Every enumeration of the finite set S without repetition: the orders in
\* which a HashMap or HashSet may be iterated, or equal-score hits returned.
Orderings(S) ==
    {s \in [1..Cardinality(S) -> S] :
        \A i, j \in 1..Cardinality(S) : i # j => s[i] # s[j]}

\* --------------------------------------------------------- schema, mapper

\* build_schema: the four fields get the handles 0..3 in the order added.
build_schema == [title |-> 0, author |-> 1, dynasty |-> 2, content |-> 3]

\* What unwrap() on a missing value does.
Panic == "<panic>"

\* Document::add_text appends one (field, text) pair.
add_text(doc, field, text) == Append(doc, [field |-> field, value |-> text])

\* impl From<Poem> for Document (the faulty variant stores the dynasty
\* under the author's handle and the author under the dynasty's).
DocumentFromPoemSwapped(p) ==
    LET fields == build_schema
        d1 == add_text(<<>>, fields.title, p.title)
        d2 == add_text(d1, fields.dynasty, p.author)
        d3 == add_text(d2, fields.author, p.dynasty)
    IN  add_text(d3, fields.content, p.content)

DocumentFromPoem(p) ==
    LET fields == build_schema
        d1 == add_text(<<>>, fields.title, p.title)
        d2 == add_text(d1, fields.author, p.author)
        d3 == add_text(d2, fields.dynasty, p.dynasty)
    IN  add_text(d3, fields.content, p.content)

\* extract_field_text: the first value stored under the field.
extract_field_text(doc, field) ==
    LET at == {i \in DOMAIN doc : doc[i].field = field}
    IN  IF at = {} THEN Panic
        ELSE doc[CHOOSE i \in at : \A j \in at : i <= j].value

\* impl From<Document> for Poem
PoemFromDocument(doc) ==
    LET fields == build_schema
    IN  [title |-> extract_field_text(doc, fields.title),
         author |-> extract_field_text(doc, fields.author),
         dynasty |-> extract_field_text(doc, fields.dynasty),
         content |-> extract_field_text(doc, fields.content)]

\* ------------------------------------------------------ the index directory

\* The directory at index_path: whether it exists, whether it holds a valid
\* index, and the documents committed to that index.
Absent == [exists |-> FALSE, valid |-> FALSE, docs |-> <<>>]
NotAnIndex == [exists |-> TRUE, valid |-> FALSE, docs |-> <<>>]

\* fs::remove_dir_all behind `if path.exists()` (the faulty variant leaves
\* the directory as it is).
remove_dir_all_kept(d) == d

remove_dir_all(d) == IF d.exists THEN Absent ELSE d

\* fs::create_dir_all
create_dir_all(d) == IF d.exists THEN d ELSE NotAnIndex

\* Index::create_in_dir: a fresh, empty index; the engine refuses a directory
\* that already holds one.
create_in_dir(d) ==
    IF d.valid THEN [ok |-> FALSE, err |-> "IndexAlreadyExists", dir |-> d]
    ELSE [ok |-> TRUE, err |-> "",
          dir |-> [exists |-> TRUE, valid |-> TRUE, docs |-> <<>>]]

\* Index::open_in_dir (the faulty variant creates the index when there
\* is none).
open_in_dir_or_create(d) ==
    IF d.valid THEN [ok |-> TRUE, err |-> "", dir |-> d]
    ELSE [ok |-> TRUE, err |-> "",
          dir |-> [exists |-> TRUE, valid |-> TRUE, docs |-> <<>>]]

open_in_dir(d) ==
    IF d.valid THEN [ok |-> TRUE, err |-> "", dir |-> d]
    ELSE [ok |-> FALSE, err |-> "IndexNotFoundError", dir |-> d]

\* An index left at the path by an earlier build of the tool, whose corpus
\* was one poem.
OldIndex ==
    [exists |-> TRUE, valid |-> TRUE,
     docs |-> <<DocumentFromPoem([title |-> "A", author |-> "X",
                                  dynasty |-> "Tang", content |-> "c1"])>>]

\* poems.into_iter().map(Document::from)
CorpusDocs(ps) == [i \in DOMAIN ps |-> DocumentFromPoem(ps[i])]

\* ------------------------------------------------------------------ state

VARIABLES
    corpus,   \* POEMS_STR: [wellformed, poems]
    disk,     \* the directory at index_path
    disk0,    \* the directory as the running invocation found it
    pc,       \* where the running invocation is
    action,   \* its subcommand
    keyword,  \* Search's keyword
    limit,    \* List's limit: <<>> for None, <<l>> for Some(l)
    count,    \* Random's count
    sort,     \* Stat's sort flag
    poems,    \* the parsed corpus
    writer,   \* documents added to the IndexWriter and not yet committed
    commits,  \* commits issued by this invocation
    set,      \* Random's HashSet<&Poem>
    draw,     \* the last index rng.gen_range returned
    out,      \* poems printed
    note,     \* any other line printed
    stat,     \* the Stat printed
    exit      \* how the invocation ended

vars == <<corpus, disk, disk0, pc, action, keyword, limit, count, sort, poems,
          writer, commits, set, draw, out, note, stat, exit>>

NoStat == [total |-> 0, author |-> <<>>, dynasty |-> <<>>]

\* serde_json::from_str(POEMS_STR)
Corpora ==
    {[wellformed |-> FALSE, poems |-> <<>>]} \cup
    {[wellformed |-> TRUE, poems |-> ps] :
        ps \in UNION {[1..n -> Poem] : n \in 0..MaxCorpus}}

Init ==
    /\ corpus \in Corpora
    /\ disk \in {Absent, NotAnIndex, OldIndex}
    /\ disk0 = disk
    /\ pc = "idle"
    /\ action = "none"
    /\ keyword = ""
    /\ limit = <<>>
    /\ count = 0
    /\ sort = FALSE
    /\ poems = <<>>
    /\ writer = <<>>
    /\ commits = 0
    /\ set = {}
    /\ draw = 0
    /\ out = <<>>
    /\ note = ""
    /\ stat = NoStat
    /\ exit = "none"

\* A new process: Args::parse and the match on args.action.
Start(a, first, k, l, c, s) ==
    /\ pc = "idle"
    /\ pc' = first
    /\ action' = a
    /\ keyword' = k
    /\ limit' = l
    /\ count' = c
    /\ sort' = s
    /\ disk0' = disk
    /\ poems' = <<>>
    /\ writer' = <<>>
    /\ commits' = 0
    /\ set' = {}
    /\ draw' = 0
    /\ out' = <<>>
    /\ note' = ""
    /\ stat' = NoStat
    /\ exit' = "none"
    /\ UNCHANGED <<corpus, disk>>

\* main returns: Ok(()) or a propagated error.
Finish(result) ==
    /\ pc' = "done"
    /\ exit' = result

\* The process is gone; only the directory is left.
Exit ==
    /\ pc = "done"
    /\ pc' = "idle"
    /\ action' = "none"
    /\ keyword' = ""
    /\ limit' = <<>>
    /\ count' = 0
    /\ sort' = FALSE
    /\ disk0' = disk
    /\ poems' = <<>>
    /\ writer' = <<>>
    /\ commits' = 0
    /\ set' = {}
    /\ draw' = 0
    /\ out' = <<>>
    /\ note' = ""
    /\ stat' = NoStat
    /\ exit' = "none"
    /\ UNCHANGED <<corpus, disk>>

\* ------------------------------------------------------------------ Index

StartIndex == Start("Index", "index_remove", "", <<>>, 0, FALSE)

\* open_or_create_index(path, false): if path.exists() { remove_dir_all }
IndexRemoveDir ==
    /\ pc = "index_remove"
    /\ disk' = remove_dir_all(disk)
    /\ pc' = "index_mkdir"
    /\ UNCHANGED <<corpus, disk0, action, keyword, limit, count, sort, poems,
                   writer, commits, set, draw, out, note, stat, exit>>

\* open_or_create_index(path, false): fs::create_dir_all
IndexCreateDir ==
    /\ pc = "index_mkdir"
    /\ disk' = create_dir_all(disk)
    /\ pc' = "index_create"
    /\ UNCHANGED <<corpus, disk0, action, keyword, limit, count, sort, poems,
                   writer, commits, set, draw, out, note, stat, exit>>

\* open_or_create_index(path, false): Index::create_in_dir(path, schema)?
IndexCreateInDir ==
    /\ pc = "index_create"
    /\ LET r == create_in_dir(disk)
       IN  /\ disk' = r.dir
           /\ IF r.ok
              THEN pc' = "index_writer" /\ exit' = exit
              ELSE Finish(r.err)
    /\ UNCHANGED <<corpus, disk0, action, keyword, limit, count, sort, poems,
                   writer, commits, set, draw, out, note, stat>>

\* let mut writer = index.writer(..)?
IndexWriter ==
    /\ pc = "index_writer"
    /\ writer' = <<>>
    /\ pc' = "index_parse"
    /\ UNCHANGED <<corpus, disk, disk0, action, keyword, limit, count, sort,
                   poems, commits, set, draw, out, note, stat, exit>>

\* let poems: Vec<Poem> = serde_json::from_str(POEMS_STR)?
IndexParse ==
    /\ pc = "index_parse"
    /\ IF corpus.wellformed
       THEN poems' = corpus.poems /\ pc' = "index_add" /\ exit' = exit
       ELSE poems' = poems /\ Finish("CorpusFormatError")
    /\ UNCHANGED <<corpus, disk, disk0, action, keyword, limit, count, sort,
                   writer, commits, set, draw, out, note, stat>>

\* One turn of for_each: writer.add_document(Document::from(poem)).  In the
\* faulty variant a document is durable as soon as it is added.
IndexAddDurable ==
    /\ pc = "index_add"
    /\ Len(writer) < Len(poems)
    /\ writer' = Append(writer, DocumentFromPoem(poems[Len(writer) + 1]))
    /\ disk' = [disk EXCEPT !.docs =
                  Append(@, DocumentFromPoem(poems[Len(writer) + 1]))]
    /\ UNCHANGED <<corpus, disk0, pc, action, keyword, limit, count, sort,
                   poems, commits, set, draw, out, note, stat, exit>>

IndexAdd ==
    /\ pc = "index_add"
    /\ Len(writer) < Len(poems)
    /\ writer' = Append(writer, DocumentFromPoem(poems[Len(writer) + 1]))
    /\ UNCHANGED <<corpus, disk, disk0, pc, action, keyword, limit, count,
                   sort, poems, commits, set, draw, out, note, stat, exit>>

\* writer.commit()?; bar.finish(); Ok(())
IndexCommit ==
    /\ pc = "index_add"
    /\ Len(writer) = Len(poems)
    /\ disk' = [disk EXCEPT !.docs = @ \o writer]
    /\ writer' = <<>>
    /\ commits' = commits + 1
    /\ Finish("ok")
    /\ UNCHANGED <<corpus, disk0, action, keyword, limit, count, sort, poems,
                   set, draw, out, note, stat>>

\* ----------------------------------------------------------------- Search

StartSearch == \E k \in Keywords : Start("Search", "search_open", k, <<>>, 0, FALSE)

\* open_or_create_index(path, true): Index::open_in_dir(path)?
SearchOpen ==
    /\ pc = "search_open"
    /\ LET r == open_in_dir(disk)
       IN  /\ disk' = r.dir
           /\ IF r.ok
              THEN pc' = "search_query" /\ exit' = exit
              ELSE Finish(r.err)
    /\ UNCHANGED <<corpus, disk0, action, keyword, limit, count, sort, poems,
                   writer, commits, set, draw, out, note, stat>>

\* A bare keyword is searched in all four fields.
Matches(doc, k) == \E i \in DOMAIN doc : doc[i].value = k

\* searcher.search(query, TopDocs::with_limit(10000)): the addresses of the
\* matching documents.
Hits(docs, k) == {i \in DOMAIN docs : Matches(docs[i], k)}

\* parse_query(&keyword)?, the search, and the loop printing each hit.
SearchRun ==
    /\ pc = "search_query"
    /\ IF keyword = BadQuery
       THEN out' = out /\ Finish("QuerySyntaxError")
       ELSE /\ \E top_docs \in Orderings(Hits(disk.docs, keyword)) :
                 out' = [i \in DOMAIN top_docs |->
                            PoemFromDocument(disk.docs[top_docs[i]])]
            /\ Finish("ok")
    /\ UNCHANGED <<corpus, disk, disk0, action, keyword, limit, count, sort,
                   poems, writer, commits, set, draw, note, stat>>

\* ------------------------------------------------------------------- List

StartList ==
    \E l \in {<<>>} \cup {<<n>> : n \in 0..MaxCorpus + 1} :
        Start("List", "list_run", "", l, 0, FALSE)

\* match limit { Some(l) => if l > poems.len() { &poems[..] } else
\* { &poems[..l] }, None => &poems[..] }.  The faulty variant stops one short.
limit_slice_short(ps, l) ==
    IF l = <<>> THEN ps
    ELSE IF l[1] > Len(ps) THEN ps ELSE SubSeq(ps, 1, l[1] - 1)

limit_slice(ps, l) ==
    IF l = <<>> THEN ps
    ELSE IF l[1] > Len(ps) THEN ps ELSE SubSeq(ps, 1, l[1])

ListRun ==
    /\ pc = "list_run"
    /\ IF corpus.wellformed
       THEN /\ poems' = corpus.poems
            /\ out' = limit_slice(corpus.poems, limit)
            /\ Finish("ok")
       ELSE /\ poems' = poems
            /\ out' = out
            /\ Finish("CorpusFormatError")
    /\ UNCHANGED <<corpus, disk, disk0, action, keyword, limit, count, sort,
                   writer, commits, set, draw, note, stat>>

\* ----------------------------------------------------------------- Random

StartRandom ==
    \E c \in 0..MaxCorpus + 1 : Start("Random", "random_parse", "", <<>>, c, FALSE)

\* poems.is_empty() (the faulty variant never sees an empty corpus).
is_empty_never(ps) == FALSE

is_empty(ps) == Len(ps) = 0

\* if count > poems.len() { count = poems.len() }
clamp(c, n) == IF c > n THEN n ELSE c

\* The parse, the empty-corpus return, the clamp, and the new HashSet.
RandomParse ==
    /\ pc = "random_parse"
    /\ IF ~corpus.wellformed
       THEN /\ Finish("CorpusFormatError")
            /\ UNCHANGED <<poems, count, note>>
       ELSE IF is_empty(corpus.poems)
       THEN /\ poems' = corpus.poems
            /\ note' = "no poem in repo"
            /\ Finish("ok")
            /\ count' = count
       ELSE /\ poems' = corpus.poems
            /\ count' = clamp(count, Len(corpus.poems))
            /\ pc' = "random_loop"
            /\ UNCHANGED <<note, exit>>
    /\ set' = {}
    /\ UNCHANGED <<corpus, disk, disk0, action, keyword, limit, sort, writer,
                   commits, draw, out, stat>>

\* One turn of while set.len() < count, with rng.gen_range returning i - 1.
\* The set holds &Poem, which hashes and compares as the Poem it points to.
RandomDraw(i) ==
    /\ pc = "random_loop"
    /\ Cardinality(set) < count
    /\ i \in DOMAIN poems
    /\ draw' = i
    /\ set' = set \cup {poems[i]}
    /\ UNCHANGED <<corpus, disk, disk0, pc, action, keyword, limit, count,
                   sort, poems, writer, commits, out, note, stat, exit>>

\* set.into_iter().for_each(println), in the set's iteration order.
RandomPrint ==
    /\ pc = "random_loop"
    /\ ~(Cardinality(set) < count)
    /\ out' \in Orderings(set)
    /\ Finish("ok")
    /\ UNCHANGED <<corpus, disk, disk0, action, keyword, limit, count, sort,
                   poems, writer, commits, set, draw, note, stat>>

\* ------------------------------------------------------------------- Stat

StartStat == \E s \in BOOLEAN : Start("Stat", "stat_run", "", <<>>, 0, s)

\* *map.entry(w).or_insert(0) += 1 (the faulty variant inserts without
\* adding to an entry that is already there).
entry_add_once(map, w) ==
    IF w \in DOMAIN map THEN map ELSE map @@ (w :> 1)

entry_add(map, w) ==
    IF w \in DOMAIN map THEN [map EXCEPT ![w] = @ + 1] ELSE map @@ (w :> 0 + 1)

\* The HashMap after the first n words.
RECURSIVE count_entries(_, _)
count_entries(words, n) ==
    IF n = 0 THEN <<>>
    ELSE entry_add(count_entries(words, n - 1), words[n])

\* pairs.sort_by_key(|p| -p.1): stable, the largest count first.
RECURSIVE sort_by_key(_, _)
sort_by_key(pairs, c) ==
    IF c = 0 THEN <<>>
    ELSE LET Has(p) == p[2] = c
         IN  SelectSeq(pairs, Has) \o sort_by_key(pairs, c - 1)

\* words_count: every vector the function may return, one per iteration
\* order of the map.
words_count(words, sorted) ==
    LET map == count_entries(words, Len(words))
        collected == {[i \in DOMAIN o |-> <<o[i], map[o[i]]>>] :
                         o \in Orderings(DOMAIN map)}
    IN  IF sorted
        THEN {sort_by_key(pairs, Len(words)) : pairs \in collected}
        ELSE collected

\* Stat::new
StatNew(total, author, dynasty) ==
    [total |-> total, author |-> author, dynasty |-> dynasty]

StatRun ==
    /\ pc = "stat_run"
    /\ IF corpus.wellformed
       THEN /\ poems' = corpus.poems
            /\ LET ps == corpus.poems
                   dynasty == [i \in DOMAIN ps |-> ps[i].dynasty]
                   author == [i \in DOMAIN ps |-> ps[i].author]
               IN  \E a \in words_count(author, sort) :
                   \E d \in words_count(dynasty, sort) :
                       stat' = StatNew(Len(ps), a, d)
            /\ note' = "stat"
            /\ Finish("ok")
       ELSE /\ UNCHANGED <<poems, stat, note>>
            /\ Finish("CorpusFormatError")
    /\ UNCHANGED <<corpus, disk, disk0, action, keyword, limit, count, sort,
                   writer, commits, set, draw, out>>

\* ------------------------------------------------------------ the process

\* The process is interrupted.
Kill ==
    /\ pc \notin {"idle", "done"}
    /\ Finish("killed")
    /\ UNCHANGED <<corpus, disk, disk0, action, keyword, limit, count, sort,
                   poems, writer, commits, set, draw, out, note, stat>>

StartCommand ==
    \/ StartIndex
    \/ StartSearch
    \/ StartList
    \/ StartRandom
    \/ StartStat

\* A step of the running command other than a draw of Random's loop.
Step ==
    \/ IndexRemoveDir
    \/ IndexCreateDir
    \/ IndexCreateInDir
    \/ IndexWriter
    \/ IndexParse
    \/ IndexAdd
    \/ IndexCommit
    \/ SearchOpen
    \/ SearchRun
    \/ ListRun
    \/ RandomParse
    \/ RandomPrint
    \/ StatRun
    \/ Exit

Draw == \E i \in 1..MaxCorpus : RandomDraw(i)

Next == StartCommand \/ Step \/ Draw \/ Kill

Spec == Init /\ [][Next]_vars

\* Every started command runs undisturbed, and the random number generator
\* returns every index again and again.
NextRun == StartCommand \/ Step \/ Draw

FairSpec ==
    /\ Init
    /\ [][NextRun]_vars
    /\ WF_vars(Step)
    /\ \A i \in 1..MaxCorpus : WF_vars(RandomDraw(i))

\* ----------------------------------------------------------------- claims

Finished(a) == action = a /\ pc = "done" /\ exit # "killed"

RECURSIVE SumCounts(_)
SumCounts(pairs) ==
    IF pairs = <<>> THEN 0 ELSE Head(pairs)[2] + SumCounts(Tail(pairs))

NoRepeats(s) == \A i, j \in DOMAIN s : i # j => s[i] # s[j]

\* C1: a poem converted to a Document and back is the same poem in each of
\* the four fields: this holds of every poem of the corpus, of every document
\* the Index command has added to its writer, and of every poem Search prints
\* from the index built from the corpus.
RoundTrip ==
    /\ \A i \in DOMAIN corpus.poems :
          LET P == corpus.poems[i]
              Q == PoemFromDocument(DocumentFromPoem(P))
          IN  /\ Q.title = P.title
              /\ Q.author = P.author
              /\ Q.dynasty = P.dynasty
              /\ Q.content = P.content
    /\ \A i \in DOMAIN writer : PoemFromDocument(writer[i]) = poems[i]
    /\ Finished("Search") /\ disk.docs = CorpusDocs(corpus.poems)
          => \A i \in DOMAIN out : out[i] \in Range(corpus.poems)

\* Search has printed a poem of the corpus the Index command stored.
RoundTripWitness ==
    /\ Finished("Search")
    /\ exit = "ok"
    /\ out # <<>>
    /\ corpus.poems # <<>>
    /\ disk.docs = CorpusDocs(corpus.poems)

\* C2: an Index run never fails because of what is already at the path, and
\* every successful run, whatever was at the path before, leaves an index
\* holding exactly one document per corpus poem, in corpus order, so that
\* every keyword has the hits it has on the index of a first run.
IndexIdempotent ==
    action = "Index" /\ pc = "done" =>
        /\ exit \in {"ok", "killed", "CorpusFormatError"}
        /\ exit = "ok" =>
              /\ disk = [exists |-> TRUE, valid |-> TRUE,
                         docs |-> CorpusDocs(corpus.poems)]
              /\ \A k \in Keywords :
                    Hits(disk.docs, k) = Hits(CorpusDocs(corpus.poems), k)

\* A successful Index run on a path that already held the index of an
\* earlier successful run of the same corpus.
IndexIdempotentWitness ==
    /\ Finished("Index")
    /\ exit = "ok"
    /\ corpus.poems # <<>>
    /\ disk0.valid
    /\ disk0.docs = CorpusDocs(corpus.poems)
    /\ disk = disk0

\* C3: started on a non-empty corpus with count at most the corpus size,
\* the Random command ends having printed exactly count poems, each of the
\* corpus and none twice.
RandomOutputsCount ==
    (/\ action = "Random"
     /\ pc = "random_parse"
     /\ corpus.wellformed
     /\ corpus.poems # <<>>
     /\ count <= Len(corpus.poems))
    ~> (/\ Finished("Random")
        /\ exit = "ok"
        /\ Len(out) = count
        /\ NoRepeats(out)
        /\ Range(out) \subseteq Range(corpus.poems))

\* C4: the Stat printed has a total equal to the number of poems, and the
\* author counts and the dynasty counts each sum to it, sorted or not.
StatSums ==
    Finished("Stat") /\ exit = "ok" =>
        /\ stat.total = Len(corpus.poems)
        /\ SumCounts(stat.author) = stat.total
        /\ SumCounts(stat.dynasty) = stat.total

\* A sorted Stat of a corpus with one author and two dynasties.
StatSumsWitness ==
    /\ Finished("Stat")
    /\ exit = "ok"
    /\ sort
    /\ Len(stat.author) = 1
    /\ Len(stat.dynasty) = 2

\* C5: an Index run that fails on a malformed corpus has not touched the
\* index: an index that was at the path is still there with its documents.
CorpusErrorBeforeMutation ==
    Finished("Index") /\ exit = "CorpusFormatError" /\ disk0.valid =>
        disk = disk0

\* C6: a Search never changes what is at the path, and on a path that holds
\* no valid index it goes no further than the open and ends with the
\* index-not-found error.
SearchReadOnly ==
    action = "Search" =>
        /\ disk = disk0
        /\ ~disk0.valid =>
              /\ pc \in {"search_open", "done"}
              /\ out = <<>>
              /\ Finished("Search") => exit = "IndexNotFoundError"

\* A Search that failed on a path with no index.
SearchReadOnlyWitness ==
    /\ Finished("Search")
    /\ exit = "IndexNotFoundError"
    /\ disk = Absent

\* C7: an Index run issues at most one commit; until that commit none of the
\* documents it has added is durable (the path holds what the run found or an
\* index with no document); it reports success only with exactly one commit
\* issued, and then every corpus document is durable.
IndexAllOrNothing ==
    action = "Index" =>
        /\ commits <= 1
        /\ commits = 0 => exit # "ok" /\ (disk = disk0 \/ disk.docs = <<>>)
        /\ commits = 1 => exit = "ok" /\ writer = <<>>
        /\ exit = "ok" => commits = 1 /\ disk.docs = CorpusDocs(corpus.poems)

\* An Index run interrupted after it had added documents and before its
\* commit.
IndexAllOrNothingWitness ==
    /\ action = "Index"
    /\ pc = "done"
    /\ exit = "killed"
    /\ writer # <<>>
    /\ Len(writer) = Len(poems)
    /\ commits = 0
    /\ disk.docs = <<>>

\* C8: List prints the first min(limit, corpus size) poems in corpus order,
\* the whole corpus without a limit, and does not fail on a limit beyond the
\* corpus size.
ListPrefix ==
    Finished("List") /\ corpus.wellformed =>
        /\ exit = "ok"
        /\ out = IF limit = <<>> THEN corpus.poems
                 ELSE SubSeq(corpus.poems, 1, Min(limit[1], Len(corpus.poems)))

\* A List cut short by its limit.
ListPrefixWitness ==
    /\ Finished("List")
    /\ exit = "ok"
    /\ limit = <<1>>
    /\ Len(corpus.poems) = 2
    /\ out = <<corpus.poems[1]>>

\* C9: on an empty corpus Random never enters its loop, draws and prints no
\* poem, and ends successfully with the no-poem message, whatever the count.
RandomEmpty ==
    action = "Random" /\ corpus.wellformed /\ corpus.poems = <<>> =>
        /\ pc \in {"random_parse", "done"}
        /\ set = {}
        /\ draw = 0
        /\ out = <<>>
        /\ Finished("Random") => exit = "ok" /\ note = "no poem in repo"

\* Random with a positive count on an empty corpus.
RandomEmptyWitness ==
    /\ Finished("Random")
    /\ corpus.wellformed
    /\ corpus.poems = <<>>
    /\ count > 0
    /\ note = "no poem in repo"

\* C10: whenever Random's loop is running, the set eventually holds as many
\* poems as the clamped count.
RandomLoopEnds ==
    (pc = "random_loop") ~> (pc = "random_loop" /\ Cardinality(set) = count)

====
